---- MODULE Spec2Model ----
(***************************************************************************)
(* State-machine model of the two view components of the voting front-end: *)
(*   CreateVote        (src/src/components/CreateVote.tsx)                 *)
(*   ParticipatedVotes (src/src/components/ParticipatedVotes.tsx)          *)
(* Every await of an asynchronous handler is one step of an invocation     *)
(* record; the code between two awaits is executed atomically, as the      *)
(* single-threaded event loop does.                                        *)
(***************************************************************************)
EXTENDS Integers, Sequences, FiniteSets, TLC

(***************************************************************************)
(* Bounds of the model.                                                    *)
(***************************************************************************)
MaxEvents == 3       \* user and wallet events of the CreateVote view
MaxGroupSize == 3    \* members of a group

(***************************************************************************)
(* Values.                                                                 *)
(***************************************************************************)
NoAccount == ""
ManagerAccount == "0xa"
OtherAccount == "0xb"
Accounts == {ManagerAccount, OtherAccount}

NullId == -1
NullContract == [address |-> "", owner |-> ""]

NoError == ""
MsgUnexpected == "An unexpected error occurred"
MsgNoAccount == "Account is not available."
MsgNotPositive == "Duration and group ID must be a positive number."
MsgNoValid == "No valid addresses found in the group."
MsgAddVoters == "Failed to add voters. Please check the addresses and try again."
MsgMaxOptions == "A maximum of 10 options are allowed."
MsgNoContractInfo == "No contract information available!"
MsgNoEthereum == "Ethereum object is not available."
MsgRangeError == "RangeError: not an integer"
MsgSyntaxError == "SyntaxError: cannot convert to BigInt"
MsgRejected == "transaction rejected"

\* What an awaited operation can throw: an Error carrying a message, or a
\* throwable that is no Error.
Throwables == {[isError |-> TRUE, message |-> MsgRejected],
               [isError |-> FALSE, message |-> ""]}

\* The mark of an invocation that has caught nothing.
NoThrow == [isError |-> FALSE, message |-> "(nothing thrown)"]

Thrown(message) == [isError |-> TRUE, message |-> message]

\* The message property read off whatever was thrown.
MessageOfAnything(thrown) == thrown.message

\* The catch blocks of fetchData, handleSubmit, fetchContractDetails and
\* fetchVotes: the message of an Error, a fixed text for anything else.
CaughtMessage(thrown) ==
    IF thrown.isError THEN thrown.message ELSE MsgUnexpected

MaxOptions == 10
SecondsPerDay == 86400
MsPerSecond == 1000

(***************************************************************************)
(* Form values and their conversions in handleSubmit.                      *)
(***************************************************************************)
VoteNames == {"", "n"}
StartTimes == {"", "1970-01-02T00:00"}
Durations == {"", "-1", "1", "1.5"}
GroupKeys == {"1", "2"}
OptionTexts == {"", " ", "a", "b"}

NaN == -1

\* Date.parse(startVoteTime): milliseconds, NaN for a string that is no date.
DateParse(s) == IF s = "1970-01-02T00:00" THEN SecondsPerDay * MsPerSecond ELSE NaN

\* BigInt(string): the empty string is 0n, a string that is no integer
\* literal throws a SyntaxError.
BigIntOk(s) == s \in {"", "-1", "1", "2"}
BigIntOf(s) == CASE s = "" -> 0
                 [] s = "1" -> 1
                 [] s = "2" -> 2
                 [] s = "-1" -> 0 - 1
                 [] OTHER -> 0

\* option.trim()
Trim(s) == IF s = " " THEN "" ELSE s

NonBlank(option) == Trim(option) # ""

\* voteOptions.filter(option => option.trim() !== '')
SubmittedOptions(opts) == SelectSeq(opts, NonBlank)

(***************************************************************************)
(* Addresses.  An address string is a 20-byte account in one of the        *)
(* textual forms ethers tells apart.                                       *)
(***************************************************************************)
AddrForms == {"lower", "checksum", "badsum", "malformed"}
AddrIds == {1, 2}
AddrStrings == [id : AddrIds, form : AddrForms]

\* ethers.isAddress: all-lowercase hex and correctly checksummed mixed-case
\* hex are addresses; a wrong checksum or a malformed string is not.
isAddress(addr) == addr.form \in {"lower", "checksum"}

\* ethers.getAddress: the checksummed form of the same account.
getAddress(addr) == [id |-> addr.id, form |-> "checksum"]

RECURSIVE MapAddr(_)
MapAddr(seq) ==
    IF seq = <<>> THEN <<>>
    ELSE <<getAddress(Head(seq))>> \o MapAddr(Tail(seq))

\* The conversion applied to every member, valid or not.
UnfilteredAddresses(usersInGroup) == MapAddr(usersInGroup)

\* usersInGroup.filter(addr => ethers.isAddress(addr)).map(addr => ethers.getAddress(addr))
ChecksummedAddresses(usersInGroup) == MapAddr(SelectSeq(usersInGroup, isAddress))

(***************************************************************************)
(* State of the CreateVote component, of its handlers in flight, and of    *)
(* the services it talks to.                                               *)
(***************************************************************************)
VARIABLES
    account,         \* useMetaMask().account ("" when there is none)
    hasEthereum,     \* window.ethereum is present
    contract,        \* useState<ethers.Contract | null>
    voteName, startVoteTime, voteDuration, groupId,
    availableGroups,
    voteOptions,
    isLoading,
    error,
    voteId,
    loads,           \* fetchData invocations
    submits,         \* handleSubmit invocations
    counter,         \* the shared vote-ID counter document
    groupMembers,    \* voteManagers/{manager}.group: group id -> member list
    createCalls,     \* contract.createVote calls issued
    confirmedVotes,  \* createVote transactions confirmed by tx.wait()
    usersVotes,      \* usersVotes/{account}.votes
    addVotersCalls,  \* contract.addVoters calls issued
    confirmedVoters, \* addVoters transactions confirmed by txx.wait()
    returned,        \* values returned by fetchAndUpdateVoteId, in order
    events,          \* user and wallet events so far
    caught           \* what a catch block of the view caught last

cvVars == <<account, hasEthereum, contract, voteName, startVoteTime,
            voteDuration, groupId, availableGroups, voteOptions, isLoading,
            error, voteId, loads, submits, counter, groupMembers,
            createCalls, confirmedVotes, usersVotes, addVotersCalls,
            confirmedVoters, returned, events, caught>>

formVars == <<voteName, startVoteTime, voteDuration, groupId, voteOptions>>
chainVars == <<createCalls, confirmedVotes, addVotersCalls, confirmedVoters>>

ContractAddress == "0xC"

\* voteManagers/{account}: only the manager account has a document.
ManagerDocExists(a) == a = ManagerAccount

LoadSlots == 1..(MaxEvents + 1)
SubmitSlots == 1..MaxEvents

IdleLoad == [pc |-> "idle", account |-> NoAccount]
IdleSubmit == [pc |-> "idle", account |-> NoAccount, voteName |-> "",
               startTime |-> 0, duration |-> 0, groupID |-> 0, groupId |-> "",
               options |-> <<>>, read |-> NullId, voteID |-> NullId]

FreeSlot(invs, slots) == CHOOSE i \in slots :
    /\ invs[i].pc = "idle"
    /\ \A j \in slots : invs[j].pc = "idle" => i <= j

HasFreeSlot(invs, slots) == \E i \in slots : invs[i].pc = "idle"

\* The form is on screen: neither the spinner nor the "not loaded" text.
FormShown == ~isLoading /\ contract # NullContract

(***************************************************************************)
(* State of the ParticipatedVotes component.                               *)
(***************************************************************************)
VARIABLES
    pvAccount,          \* useMetaMask().account
    pvEthereum,         \* useMetaMask().ethereum is present
    isValidUser,        \* useCheckUser()[0]
    userLoading,        \* useCheckUser()[1]
    userDetails,        \* useFetchUserDetails(account)[0]
    userDetailsLoading, \* useFetchUserDetails(account)[1]
    pvContract,
    pvLoading,
    pvError,
    votes,
    details,            \* fetchContractDetails invocations
    fetches,            \* fetchVotes invocations
    readCalls,          \* contract.getAccessibleVotes calls issued
    votesFrom,          \* what the rows of votes were computed from
    pvEvents,           \* wallet and hook events so far
    pvCaught            \* what a catch block of the view caught last

pvVars == <<pvAccount, pvEthereum, isValidUser, userLoading, userDetails,
            userDetailsLoading, pvContract, pvLoading, pvError, votes,
            details, fetches, readCalls, votesFrom, pvEvents, pvCaught>>

VARIABLE view           \* the component that is mounted

vars == <<view, cvVars, pvVars>>

(***************************************************************************)
(* CreateVote: the fetchData effect (lines 38-79).                         *)
(***************************************************************************)

\* The effect body up to its first await: with no connected account the try
\* block does nothing and the finally block clears isLoading.
StartFetchData(a) ==
    IF a # NoAccount
    THEN /\ loads' = [loads EXCEPT ![FreeSlot(loads, LoadSlots)] =
                        [pc |-> "getDoc", account |-> a]]
         /\ UNCHANGED isLoading
    ELSE /\ isLoading' = FALSE
         /\ UNCHANGED loads

\* status or account changes in the wallet: the effect runs again.
AccountChanged(a) ==
    /\ view = "CreateVote"
    /\ a # account
    /\ events < MaxEvents
    /\ HasFreeSlot(loads, LoadSlots)
    /\ account' = a
    /\ events' = events + 1
    /\ StartFetchData(a)
    /\ UNCHANGED <<hasEthereum, contract, formVars, availableGroups, error,
                   voteId, submits, counter, groupMembers, chainVars,
                   usersVotes, returned, caught>>
    /\ UNCHANGED <<view, pvVars>>

\* await getDoc(docRef) has resolved.
fetchDataGotDoc(i) ==
    /\ loads[i].pc = "getDoc"
    /\ IF ~ManagerDocExists(loads[i].account)
       THEN /\ error' = CaughtMessage(Thrown(MsgNoContractInfo))
            /\ isLoading' = FALSE
            /\ caught' = Thrown(MsgNoContractInfo)
            /\ loads' = [loads EXCEPT ![i].pc = "done"]
       ELSE IF ~hasEthereum
       THEN /\ error' = CaughtMessage(Thrown(MsgNoEthereum))
            /\ isLoading' = FALSE
            /\ caught' = Thrown(MsgNoEthereum)
            /\ loads' = [loads EXCEPT ![i].pc = "done"]
       ELSE /\ loads' = [loads EXCEPT ![i].pc = "createContract"]
            /\ UNCHANGED <<error, isLoading, caught>>
    /\ UNCHANGED <<account, hasEthereum, contract, formVars, availableGroups,
                   voteId, submits, counter, groupMembers, chainVars,
                   usersVotes, returned, events>>
    /\ UNCHANGED <<view, pvVars>>

\* await createContract(...) has resolved: setContract.
fetchDataGotContract(i) ==
    /\ loads[i].pc = "createContract"
    /\ contract' = [address |-> ContractAddress, owner |-> loads[i].account]
    /\ loads' = [loads EXCEPT ![i].pc = "getCurrentVoteId"]
    /\ UNCHANGED <<account, hasEthereum, formVars, availableGroups, isLoading,
                   error, voteId, submits, counter, groupMembers, chainVars,
                   usersVotes, returned, events, caught>>
    /\ UNCHANGED <<view, pvVars>>

\* getCurrentVoteId(): the value of the counter document.
getCurrentVoteId == counter

\* await getCurrentVoteId() has resolved: setVoteId, setAvailableGroups, and
\* the finally block.
fetchDataGotVoteId(i) ==
    /\ loads[i].pc = "getCurrentVoteId"
    /\ voteId' = getCurrentVoteId
    /\ availableGroups' = GroupKeys
    /\ isLoading' = FALSE
    /\ loads' = [loads EXCEPT ![i].pc = "done"]
    /\ UNCHANGED <<account, hasEthereum, contract, formVars, error, submits,
                   counter, groupMembers, chainVars, usersVotes, returned,
                   events, caught>>
    /\ UNCHANGED <<view, pvVars>>

\* An awaited operation of fetchData throws: the catch and finally blocks.
fetchDataCatch(i, thrown) ==
    /\ loads[i].pc \in {"getDoc", "createContract", "getCurrentVoteId"}
    /\ error' = CaughtMessage(thrown)
    /\ isLoading' = FALSE
    /\ caught' = thrown
    /\ loads' = [loads EXCEPT ![i].pc = "done"]
    /\ UNCHANGED <<account, hasEthereum, contract, formVars, availableGroups,
                   voteId, submits, counter, groupMembers, chainVars,
                   usersVotes, returned, events>>
    /\ UNCHANGED <<view, pvVars>>

(***************************************************************************)
(* CreateVote: the form handlers (lines 98-119 and the onChange props).    *)
(***************************************************************************)
UserCanEdit == FormShown /\ events < MaxEvents

setVoteName(v) ==
    /\ UserCanEdit
    /\ v # voteName
    /\ voteName' = v
    /\ events' = events + 1
    /\ UNCHANGED <<account, hasEthereum, contract, startVoteTime, voteDuration,
                   groupId, availableGroups, voteOptions, isLoading, error,
                   voteId, loads, submits, counter, groupMembers, chainVars,
                   usersVotes, returned, caught>>
    /\ UNCHANGED <<view, pvVars>>

setStartVoteTime(v) ==
    /\ UserCanEdit
    /\ v # startVoteTime
    /\ startVoteTime' = v
    /\ events' = events + 1
    /\ UNCHANGED <<account, hasEthereum, contract, voteName, voteDuration,
                   groupId, availableGroups, voteOptions, isLoading, error,
                   voteId, loads, submits, counter, groupMembers, chainVars,
                   usersVotes, returned, caught>>
    /\ UNCHANGED <<view, pvVars>>

setVoteDuration(v) ==
    /\ UserCanEdit
    /\ v # voteDuration
    /\ voteDuration' = v
    /\ events' = events + 1
    /\ UNCHANGED <<account, hasEthereum, contract, voteName, startVoteTime,
                   groupId, availableGroups, voteOptions, isLoading, error,
                   voteId, loads, submits, counter, groupMembers, chainVars,
                   usersVotes, returned, caught>>
    /\ UNCHANGED <<view, pvVars>>

\* The Select offers the keys of the manager's group map.
setGroupId(v) ==
    /\ UserCanEdit
    /\ v \in availableGroups
    /\ v # groupId
    /\ groupId' = v
    /\ events' = events + 1
    /\ UNCHANGED <<account, hasEthereum, contract, voteName, startVoteTime,
                   voteDuration, availableGroups, voteOptions, isLoading,
                   error, voteId, loads, submits, counter, groupMembers,
                   chainVars, usersVotes, returned, caught>>
    /\ UNCHANGED <<view, pvVars>>

OptionsAfterChange(options, index, value) == [options EXCEPT ![index] = value]

handleOptionChange(index, value) ==
    /\ UserCanEdit
    /\ index \in 1..Len(voteOptions)
    /\ value # voteOptions[index]
    /\ voteOptions' = OptionsAfterChange(voteOptions, index, value)
    /\ events' = events + 1
    /\ UNCHANGED <<account, hasEthereum, contract, voteName, startVoteTime,
                   voteDuration, groupId, availableGroups, isLoading, error,
                   voteId, loads, submits, counter, groupMembers, chainVars,
                   usersVotes, returned, caught>>
    /\ UNCHANGED <<view, pvVars>>

\* The cap compared with <= instead of <.
CanAddOptionAtCap(options) == Len(options) <= MaxOptions

CanAddOption(options) == Len(options) < MaxOptions

\* addOption as a handler.  (The button that calls it is rendered only while
\* the list is below the cap, line 259.)
addOption ==
    /\ FormShown
    /\ IF CanAddOption(voteOptions)
       THEN /\ events < MaxEvents
            /\ voteOptions' = Append(voteOptions, "")
            /\ events' = events + 1
            /\ UNCHANGED error
       ELSE /\ error' = MsgMaxOptions
            /\ UNCHANGED <<voteOptions, events>>
    /\ UNCHANGED <<account, hasEthereum, contract, voteName, startVoteTime,
                   voteDuration, groupId, availableGroups, isLoading, voteId,
                   loads, submits, counter, groupMembers, chainVars,
                   usersVotes, returned, caught>>
    /\ UNCHANGED <<view, pvVars>>

EmptyOptions == <<"", "">>

resetForm ==
    /\ voteName' = ""
    /\ startVoteTime' = ""
    /\ voteDuration' = ""
    /\ groupId' = ""
    /\ voteOptions' = EmptyOptions

(***************************************************************************)
(* CreateVote: handleSubmit (lines 121-182).                               *)
(***************************************************************************)

OuterAwaits == {"allocRead", "allocWrite", "createVote", "txWait", "setDoc"}
InnerAwaits == {"getUsers", "addVoters", "txxWait"}

\* What the outer catch block (lines 173-181) stores.
OuterCatchMessage(thrown) == CaughtMessage(thrown)

\* What the inner catch block (lines 168-171) stores.
InnerCatchMessage(thrown) == MsgAddVoters

\* The conversions without the check of line 133.
ValidationErrorNoPositivity(acc, start, dur, gid) ==
    IF acc = NoAccount THEN MsgNoAccount
    ELSE IF DateParse(start) = NaN THEN MsgRangeError
    ELSE IF ~BigIntOk(dur) THEN MsgSyntaxError
    ELSE IF ~BigIntOk(gid) THEN MsgSyntaxError
    ELSE NoError

\* The message of what the code before the first await throws ("" when it
\* throws nothing):
\* the account check, BigInt(Date.parse(startVoteTime) / 1000),
\* BigInt(voteDuration), BigInt(groupId), and the positivity check.
ValidationError(acc, start, dur, gid) ==
    IF acc = NoAccount THEN MsgNoAccount
    ELSE IF DateParse(start) = NaN THEN MsgRangeError
    ELSE IF ~BigIntOk(dur) THEN MsgSyntaxError
    ELSE IF ~BigIntOk(gid) THEN MsgSyntaxError
    ELSE IF BigIntOf(dur) * SecondsPerDay <= 0 \/ BigIntOf(gid) <= 0
         THEN MsgNotPositive
    ELSE NoError

\* The submit event: the code of handleSubmit up to await fetchAndUpdateVoteId().
handleSubmit ==
    /\ FormShown
    /\ events < MaxEvents
    /\ HasFreeSlot(submits, SubmitSlots)
    /\ events' = events + 1
    /\ LET thrown == ValidationError(account, startVoteTime, voteDuration, groupId)
       IN IF thrown # NoError
          THEN /\ error' = OuterCatchMessage(Thrown(thrown))
               /\ submits' = [submits EXCEPT ![FreeSlot(submits, SubmitSlots)] =
                    [IdleSubmit EXCEPT !.pc = "done", !.account = account]]
               /\ caught' = Thrown(thrown)
          ELSE /\ submits' = [submits EXCEPT ![FreeSlot(submits, SubmitSlots)] =
                    [pc |-> "allocRead",
                     account |-> account,
                     voteName |-> voteName,
                     startTime |-> DateParse(startVoteTime) \div MsPerSecond,
                     duration |-> BigIntOf(voteDuration) * SecondsPerDay,
                     groupID |-> BigIntOf(groupId),
                     groupId |-> groupId,
                     options |-> SubmittedOptions(voteOptions),
                     read |-> NullId,
                     voteID |-> NullId]]
               /\ UNCHANGED <<error, caught>>
    /\ UNCHANGED <<account, hasEthereum, contract, formVars, availableGroups,
                   isLoading, voteId, loads, counter, groupMembers, chainVars,
                   usersVotes, returned>>
    /\ UNCHANGED <<view, pvVars>>

\* fetchAndUpdateVoteId, first half: the counter document is read.
fetchAndUpdateVoteIdRead(i) ==
    /\ submits[i].pc = "allocRead"
    /\ submits' = [submits EXCEPT ![i].pc = "allocWrite", ![i].read = counter]
    /\ UNCHANGED <<account, hasEthereum, contract, formVars, availableGroups,
                   isLoading, error, voteId, loads, counter, groupMembers,
                   chainVars, usersVotes, returned, events, caught>>
    /\ UNCHANGED <<view, pvVars>>

\* The value fetchAndUpdateVoteId persists and returns for the value it read.
IncrementedVoteId(read) == read + 1

CreateVoteCall(i, inv, id) ==
    [inv |-> i, voteID |-> id, voteName |-> inv.voteName,
     startTime |-> inv.startTime, duration |-> inv.duration,
     groupID |-> inv.groupID, options |-> inv.options]

\* fetchAndUpdateVoteId, second half: the incremented value is written back
\* and returned; handleSubmit goes on with setVoteId(voteID) and calls
\* contract.createVote.
fetchAndUpdateVoteIdDone(i) ==
    /\ submits[i].pc = "allocWrite"
    /\ LET id == IncrementedVoteId(submits[i].read)
       IN /\ counter' = id
          /\ returned' = Append(returned, id)
          /\ voteId' = id
          /\ createCalls' = createCalls \cup {CreateVoteCall(i, submits[i], id)}
          /\ submits' = [submits EXCEPT ![i].pc = "createVote", ![i].voteID = id]
    /\ UNCHANGED <<account, hasEthereum, contract, formVars, availableGroups,
                   isLoading, error, loads, groupMembers, confirmedVotes,
                   addVotersCalls, confirmedVoters, usersVotes, events, caught>>
    /\ UNCHANGED <<view, pvVars>>

\* createVote resolved and the handler goes on without awaiting tx.wait().
createVoteSentNoWait(i) ==
    /\ submits[i].pc = "createVote"
    /\ submits' = [submits EXCEPT ![i].pc = "setDoc"]
    /\ UNCHANGED <<account, hasEthereum, contract, formVars, availableGroups,
                   isLoading, error, voteId, loads, counter, groupMembers,
                   chainVars, usersVotes, returned, events, caught>>
    /\ UNCHANGED <<view, pvVars>>

\* await contract.createVote(...) has resolved with the transaction.
createVoteSent(i) ==
    /\ submits[i].pc = "createVote"
    /\ submits' = [submits EXCEPT ![i].pc = "txWait"]
    /\ UNCHANGED <<account, hasEthereum, contract, formVars, availableGroups,
                   isLoading, error, voteId, loads, counter, groupMembers,
                   chainVars, usersVotes, returned, events, caught>>
    /\ UNCHANGED <<view, pvVars>>

\* await tx.wait() has resolved; setDoc on usersVotes/{account} is called.
txWaitDone(i) ==
    /\ submits[i].pc = "txWait"
    /\ confirmedVotes' = confirmedVotes \cup
                            {CreateVoteCall(i, submits[i], submits[i].voteID)}
    /\ submits' = [submits EXCEPT ![i].pc = "setDoc"]
    /\ UNCHANGED <<account, hasEthereum, contract, formVars, availableGroups,
                   isLoading, error, voteId, loads, counter, groupMembers,
                   createCalls, addVotersCalls, confirmedVoters, usersVotes,
                   returned, events, caught>>
    /\ UNCHANGED <<view, pvVars>>

\* arrayUnion(entry) merged into an array field.
arrayUnion(array, entry) ==
    IF \E k \in 1..Len(array) : array[k] = entry THEN array
    ELSE Append(array, entry)

UsersVotesEntry(inv) == [voteID |-> inv.voteID, voteName |-> inv.voteName]

\* await setDoc(...) has resolved: the entry is merged, the alert shown, the
\* form reset, and getUsersByGroupId called.
setDocDone(i) ==
    /\ submits[i].pc = "setDoc"
    /\ usersVotes' = [usersVotes EXCEPT ![submits[i].account] =
                        arrayUnion(@, UsersVotesEntry(submits[i]))]
    /\ resetForm
    /\ submits' = [submits EXCEPT ![i].pc = "getUsers"]
    /\ UNCHANGED <<account, hasEthereum, contract, availableGroups, isLoading,
                   error, voteId, loads, counter, groupMembers, chainVars,
                   returned, events, caught>>
    /\ UNCHANGED <<view, pvVars>>

\* getUsersByGroupId(managerAccount, groupId): the member list of the group
\* in the manager's document, nothing for a group or a document that is not
\* there.
getUsersByGroupId(managerAccount, gid) ==
    IF ManagerDocExists(managerAccount) /\ gid \in DOMAIN groupMembers
    THEN groupMembers[gid] ELSE <<>>

\* An address list that is never taken for empty.
NeverEmpty(checksummedAddresses) == FALSE

\* checksummedAddresses.length === 0
NoValidAddresses(checksummedAddresses) == Len(checksummedAddresses) = 0

AddVotersCall(i, inv, addresses) ==
    [inv |-> i, voteID |-> inv.voteID, addresses |-> addresses,
     groupID |-> inv.groupID]

\* await getUsersByGroupId(...) has resolved: the addresses are filtered and
\* converted; an empty result throws into the inner catch, otherwise
\* contract.addVoters is called.
gotUsersInGroup(i) ==
    /\ submits[i].pc = "getUsers"
    /\ LET usersInGroup == getUsersByGroupId(submits[i].account, submits[i].groupId)
           checksummedAddresses == ChecksummedAddresses(usersInGroup)
       IN IF NoValidAddresses(checksummedAddresses)
          THEN /\ error' = InnerCatchMessage(Thrown(MsgNoValid))
               /\ caught' = Thrown(MsgNoValid)
               /\ submits' = [submits EXCEPT ![i].pc = "done"]
               /\ UNCHANGED addVotersCalls
          ELSE /\ addVotersCalls' = addVotersCalls \cup
                      {AddVotersCall(i, submits[i], checksummedAddresses)}
               /\ submits' = [submits EXCEPT ![i].pc = "addVoters"]
               /\ UNCHANGED <<error, caught>>
    /\ UNCHANGED <<account, hasEthereum, contract, formVars, availableGroups,
                   isLoading, voteId, loads, counter, groupMembers,
                   createCalls, confirmedVotes, confirmedVoters, usersVotes,
                   returned, events>>
    /\ UNCHANGED <<view, pvVars>>

\* await contract.addVoters(...) has resolved with the transaction.
addVotersSent(i) ==
    /\ submits[i].pc = "addVoters"
    /\ submits' = [submits EXCEPT ![i].pc = "txxWait"]
    /\ UNCHANGED <<account, hasEthereum, contract, formVars, availableGroups,
                   isLoading, error, voteId, loads, counter, groupMembers,
                   chainVars, usersVotes, returned, events, caught>>
    /\ UNCHANGED <<view, pvVars>>

\* await txx.wait() has resolved: handleSubmit returns.
txxWaitDone(i) ==
    /\ submits[i].pc = "txxWait"
    /\ confirmedVoters' = confirmedVoters \cup {submits[i].voteID}
    /\ submits' = [submits EXCEPT ![i].pc = "done"]
    /\ UNCHANGED <<account, hasEthereum, contract, formVars, availableGroups,
                   isLoading, error, voteId, loads, counter, groupMembers,
                   createCalls, confirmedVotes, addVotersCalls, usersVotes,
                   returned, events, caught>>
    /\ UNCHANGED <<view, pvVars>>

\* An awaited operation of the creation phase throws: the outer catch.
handleSubmitCatch(i, thrown) ==
    /\ submits[i].pc \in OuterAwaits
    /\ error' = OuterCatchMessage(thrown)
    /\ caught' = thrown
    /\ submits' = [submits EXCEPT ![i].pc = "done"]
    /\ UNCHANGED <<account, hasEthereum, contract, formVars, availableGroups,
                   isLoading, voteId, loads, counter, groupMembers, chainVars,
                   usersVotes, returned, events>>
    /\ UNCHANGED <<view, pvVars>>

\* An awaited operation of the add-voters phase throws: the inner catch.
addVotersCatch(i, thrown) ==
    /\ submits[i].pc \in InnerAwaits
    /\ error' = InnerCatchMessage(thrown)
    /\ caught' = thrown
    /\ submits' = [submits EXCEPT ![i].pc = "done"]
    /\ UNCHANGED <<account, hasEthereum, contract, formVars, availableGroups,
                   isLoading, voteId, loads, counter, groupMembers, chainVars,
                   usersVotes, returned, events>>
    /\ UNCHANGED <<view, pvVars>>

(***************************************************************************)
(* ParticipatedVotes: values.                                              *)
(***************************************************************************)
MaxPvEvents == 3      \* wallet and hook events of the ParticipatedVotes view
MaxRows == 2         \* rows of one getAccessibleVotes result

PvNullContract == [address |-> "", owner |-> "", source |-> ""]
NullDetails == [contractAddress |-> "", present |-> FALSE]
UserContractAddress == "0xD"
NullGroup == -1
MsgNotFound == "Contract details not found!"
MsgNoGroup == "Group ID not found for the user"

DetailSlots == 1..MaxPvEvents
FetchSlots == 1..(2 * MaxPvEvents)

IdleDetail == [pc |-> "idle", account |-> NoAccount, ethereum |-> FALSE,
               source |-> "", address |-> ""]
IdleFetch == [pc |-> "idle", account |-> NoAccount, contract |-> PvNullContract,
              groupId |-> NullGroup]
NoVotesFrom == [result |-> <<>>, currentTime |-> 0,
                contract |-> PvNullContract, account |-> NoAccount]

\* The component before it is mounted.
Unmounted ==
    /\ pvAccount = NoAccount
    /\ pvEthereum = FALSE
    /\ isValidUser = FALSE
    /\ userLoading = TRUE
    /\ userDetails = NullDetails
    /\ userDetailsLoading = TRUE
    /\ pvContract = PvNullContract
    /\ pvLoading = TRUE
    /\ pvError = NoError
    /\ votes = <<>>
    /\ details = [i \in DetailSlots |-> IdleDetail]
    /\ fetches = [i \in FetchSlots |-> IdleFetch]
    /\ readCalls = {}
    /\ votesFrom = NoVotesFrom
    /\ pvEvents = 0
    /\ pvCaught = NoThrow

(***************************************************************************)
(* CreateVote: mounting, and the steps of the component.                   *)
(***************************************************************************)
Addr(id, form) == [id |-> id, form |-> form]

\* The manager's groups: one with addresses of every form, one with none
\* that is valid.
SampleGroups ==
    [k \in GroupKeys |->
        IF k = "1"
        THEN <<Addr(1, "lower"), Addr(2, "malformed"), Addr(2, "checksum")>>
        ELSE <<Addr(1, "badsum")>>]

\* The useState initial values (lines 26-35) and the first run of the
\* fetchData effect.
InitCreateVote ==
    /\ view = "CreateVote"
    /\ account = ManagerAccount
    /\ hasEthereum \in BOOLEAN
    /\ contract = NullContract
    /\ voteName = ""
    /\ startVoteTime = ""
    /\ voteDuration = ""
    /\ groupId = ""
    /\ availableGroups = {}
    /\ voteOptions = EmptyOptions
    /\ isLoading = TRUE
    /\ error = NoError
    /\ voteId = NullId
    /\ loads = [i \in LoadSlots |->
                  IF i = 1 THEN [pc |-> "getDoc", account |-> account]
                  ELSE IdleLoad]
    /\ submits = [i \in SubmitSlots |-> IdleSubmit]
    /\ counter = 0
    /\ groupMembers = SampleGroups
    /\ createCalls = {}
    /\ confirmedVotes = {}
    /\ usersVotes = [a \in Accounts |-> <<>>]
    /\ addVotersCalls = {}
    /\ confirmedVoters = {}
    /\ returned = <<>>
    /\ events = 0
    /\ caught = NoThrow
    /\ Unmounted

\* The view with the contract loaded and the form filled in by the manager:
\* the state after fetchData has ended and the fields have been typed in.
FilledForms ==
    {[groupId |-> "1", voteOptions |-> <<"b", " ", "a">>],
     [groupId |-> "1", voteOptions |-> [k \in 1..(MaxOptions - 1) |-> ""]]}

InitFilled ==
    /\ view = "CreateVote"
    /\ account = ManagerAccount
    /\ hasEthereum = TRUE
    /\ contract = [address |-> ContractAddress, owner |-> ManagerAccount]
    /\ voteName = "n"
    /\ startVoteTime = "1970-01-02T00:00"
    /\ voteDuration = "1"
    /\ \E form \in FilledForms :
          /\ groupId = form.groupId
          /\ voteOptions = form.voteOptions
    /\ availableGroups = GroupKeys
    /\ isLoading = FALSE
    /\ error = NoError
    /\ voteId = 0
    /\ loads = [i \in LoadSlots |->
                  IF i = 1 THEN [pc |-> "done", account |-> ManagerAccount]
                  ELSE IdleLoad]
    /\ submits = [i \in SubmitSlots |-> IdleSubmit]
    /\ counter = 0
    /\ groupMembers = SampleGroups
    /\ createCalls = {}
    /\ confirmedVotes = {}
    /\ usersVotes = [a \in Accounts |-> <<>>]
    /\ addVotersCalls = {}
    /\ confirmedVoters = {}
    /\ returned = <<>>
    /\ events = 1
    /\ caught = NoThrow
    /\ Unmounted

\* The inputs the user edits: the first, the second and the last possible one.
EditedIndexes == {1, 2, MaxOptions}

NextCreateVote ==
    \/ \E a \in Accounts \cup {NoAccount} : AccountChanged(a)
    \/ \E i \in LoadSlots : fetchDataGotDoc(i)
    \/ \E i \in LoadSlots : fetchDataGotContract(i)
    \/ \E i \in LoadSlots : fetchDataGotVoteId(i)
    \/ \E i \in LoadSlots, thrown \in Throwables : fetchDataCatch(i, thrown)
    \/ \E v \in VoteNames : setVoteName(v)
    \/ \E v \in StartTimes : setStartVoteTime(v)
    \/ \E v \in Durations : setVoteDuration(v)
    \/ \E v \in GroupKeys : setGroupId(v)
    \/ \E index \in EditedIndexes, value \in OptionTexts : handleOptionChange(index, value)
    \/ addOption
    \/ handleSubmit
    \/ \E i \in SubmitSlots : fetchAndUpdateVoteIdRead(i)
    \/ \E i \in SubmitSlots : fetchAndUpdateVoteIdDone(i)
    \/ \E i \in SubmitSlots : createVoteSent(i)
    \/ \E i \in SubmitSlots : txWaitDone(i)
    \/ \E i \in SubmitSlots : setDocDone(i)
    \/ \E i \in SubmitSlots : gotUsersInGroup(i)
    \/ \E i \in SubmitSlots : addVotersSent(i)
    \/ \E i \in SubmitSlots : txxWaitDone(i)
    \/ \E i \in SubmitSlots, thrown \in Throwables : handleSubmitCatch(i, thrown)
    \/ \E i \in SubmitSlots, thrown \in Throwables : addVotersCatch(i, thrown)

(***************************************************************************)
(* ParticipatedVotes: the effects (lines 44-127).                          *)
(***************************************************************************)
UserDetailsValues == {NullDetails, [contractAddress |-> UserContractAddress, present |-> TRUE]}

\* The first effect (lines 44-85) with the values of the render that runs it,
\* up to the first await of fetchContractDetails.
FetchContractDetailsStart(acc, eth, valid, uLoading, ud, udLoading) ==
    IF acc # NoAccount /\ ~uLoading /\ ~udLoading
    THEN IF valid
         THEN /\ details' = [details EXCEPT ![FreeSlot(details, DetailSlots)] =
                    [pc |-> "getDoc", account |-> acc, ethereum |-> eth,
                     source |-> "manager", address |-> ""]]
              /\ UNCHANGED <<pvError, pvLoading, pvCaught>>
         ELSE IF ud.present /\ ud.contractAddress # "" /\ eth
         THEN /\ details' = [details EXCEPT ![FreeSlot(details, DetailSlots)] =
                    [pc |-> "createContract", account |-> acc, ethereum |-> eth,
                     source |-> "user", address |-> ud.contractAddress]]
              /\ UNCHANGED <<pvError, pvLoading, pvCaught>>
         ELSE /\ pvError' = CaughtMessage(Thrown(MsgNotFound))
              /\ pvLoading' = FALSE
              /\ pvCaught' = Thrown(MsgNotFound)
              /\ UNCHANGED details
    ELSE UNCHANGED <<details, pvError, pvLoading, pvCaught>>

\* The second effect with a cleanup that drops the fetches still in flight.
FetchVotesStartCancelling(c, acc) ==
    IF c # PvNullContract /\ acc # NoAccount
    THEN fetches' = [i \in FetchSlots |->
            IF i = FreeSlot(fetches, FetchSlots)
            THEN [pc |-> "getGroupId", account |-> acc, contract |-> c,
                  groupId |-> NullGroup]
            ELSE IdleFetch]
    ELSE UNCHANGED fetches

\* The second effect (lines 87-127) with the values of the render that runs
\* it, up to the first await of fetchVotes.
FetchVotesStart(c, acc) ==
    IF c # PvNullContract /\ acc # NoAccount
    THEN fetches' = [fetches EXCEPT ![FreeSlot(fetches, FetchSlots)] =
            [pc |-> "getGroupId", account |-> acc, contract |-> c,
             groupId |-> NullGroup]]
    ELSE UNCHANGED fetches

\* The wallet reports another account: both effects depend on it.
pvAccountChanged(a) ==
    /\ view = "ParticipatedVotes"
    /\ pvEvents < MaxPvEvents
    /\ a # pvAccount
    /\ pvAccount' = a
    /\ pvEvents' = pvEvents + 1
    /\ FetchContractDetailsStart(a, pvEthereum, isValidUser, userLoading,
                                 userDetails, userDetailsLoading)
    /\ FetchVotesStart(pvContract, a)
    /\ UNCHANGED <<pvEthereum, isValidUser, userLoading, userDetails,
                   userDetailsLoading, pvContract, votes, readCalls, votesFrom>>
    /\ UNCHANGED <<view, cvVars>>

\* useCheckUser returns other values: the first effect depends on them.
checkUserChanged(valid, uLoading) ==
    /\ view = "ParticipatedVotes"
    /\ pvEvents < MaxPvEvents
    /\ <<valid, uLoading>> # <<isValidUser, userLoading>>
    /\ isValidUser' = valid
    /\ userLoading' = uLoading
    /\ pvEvents' = pvEvents + 1
    /\ FetchContractDetailsStart(pvAccount, pvEthereum, valid, uLoading,
                                 userDetails, userDetailsLoading)
    /\ UNCHANGED <<pvAccount, pvEthereum, userDetails, userDetailsLoading,
                   pvContract, votes, fetches, readCalls, votesFrom>>
    /\ UNCHANGED <<view, cvVars>>

\* useFetchUserDetails returns other values: the first effect depends on them.
userDetailsChanged(ud, udLoading) ==
    /\ view = "ParticipatedVotes"
    /\ pvEvents < MaxPvEvents
    /\ <<ud, udLoading>> # <<userDetails, userDetailsLoading>>
    /\ userDetails' = ud
    /\ userDetailsLoading' = udLoading
    /\ pvEvents' = pvEvents + 1
    /\ FetchContractDetailsStart(pvAccount, pvEthereum, isValidUser, userLoading,
                                 ud, udLoading)
    /\ UNCHANGED <<pvAccount, pvEthereum, isValidUser, userLoading,
                   pvContract, votes, fetches, readCalls, votesFrom>>
    /\ UNCHANGED <<view, cvVars>>

\* await getDoc(docRef) of fetchContractDetails has resolved.
detailsGotDoc(i) ==
    /\ details[i].pc = "getDoc"
    /\ LET contractAddress ==
              IF ManagerDocExists(details[i].account) THEN ContractAddress ELSE ""
       IN IF contractAddress # "" /\ details[i].ethereum
          THEN /\ details' = [details EXCEPT ![i].pc = "createContract",
                                             ![i].address = contractAddress]
               /\ UNCHANGED <<pvError, pvLoading, pvCaught>>
          ELSE /\ pvError' = CaughtMessage(Thrown(MsgNotFound))
               /\ pvLoading' = FALSE
               /\ pvCaught' = Thrown(MsgNotFound)
               /\ details' = [details EXCEPT ![i] = IdleDetail]
    /\ UNCHANGED <<pvAccount, pvEthereum, isValidUser, userLoading, userDetails,
                   userDetailsLoading, pvContract, votes, fetches, readCalls,
                   votesFrom, pvEvents>>
    /\ UNCHANGED <<view, cvVars>>

\* await createContract(...) has resolved: setContract, setLoading(false); the
\* new contract runs the second effect.
detailsGotContract(i) ==
    /\ details[i].pc = "createContract"
    /\ pvContract' = [address |-> details[i].address,
                      owner |-> details[i].account,
                      source |-> details[i].source]
    /\ pvLoading' = FALSE
    /\ details' = [details EXCEPT ![i] = IdleDetail]
    /\ FetchVotesStart(pvContract', pvAccount)
    /\ UNCHANGED <<pvAccount, pvEthereum, isValidUser, userLoading, userDetails,
                   userDetailsLoading, pvError, votes, readCalls, votesFrom,
                   pvEvents, pvCaught>>
    /\ UNCHANGED <<view, cvVars>>

\* An awaited operation of fetchContractDetails throws.
detailsCatch(i, thrown) ==
    /\ details[i].pc \in {"getDoc", "createContract"}
    /\ pvError' = CaughtMessage(thrown)
    /\ pvLoading' = FALSE
    /\ pvCaught' = thrown
    /\ details' = [details EXCEPT ![i] = IdleDetail]
    /\ UNCHANGED <<pvAccount, pvEthereum, isValidUser, userLoading, userDetails,
                   userDetailsLoading, pvContract, votes, fetches, readCalls,
                   votesFrom, pvEvents>>
    /\ UNCHANGED <<view, cvVars>>

GroupIdResults == {NullGroup, 1}

ReadCall(inv, g) == [contract |-> inv.contract, groupId |-> g, account |-> inv.account]

\* await getGroupIdForUser(...) has resolved with g.
votesGotGroupId(i, g) ==
    /\ fetches[i].pc = "getGroupId"
    /\ IF g = NullGroup
       THEN /\ pvError' = CaughtMessage(Thrown(MsgNoGroup))
            /\ pvCaught' = Thrown(MsgNoGroup)
            /\ fetches' = [fetches EXCEPT ![i] = IdleFetch]
            /\ UNCHANGED readCalls
       ELSE /\ readCalls' = readCalls \cup {ReadCall(fetches[i], g)}
            /\ fetches' = [fetches EXCEPT ![i].pc = "getAccessibleVotes",
                                          ![i].groupId = g]
            /\ UNCHANGED <<pvError, pvCaught>>
    /\ UNCHANGED <<pvAccount, pvEthereum, isValidUser, userLoading, userDetails,
                   userDetailsLoading, pvContract, pvLoading, votes, details,
                   votesFrom, pvEvents>>
    /\ UNCHANGED <<view, cvVars>>

(***************************************************************************)
(* The rows of getAccessibleVotes and their formatting (lines 97-111).     *)
(* Times of the contract are seconds, Date values are milliseconds.        *)
(***************************************************************************)
StartSeconds == {0, 1}
DurationSeconds == {1, 2}
CurrentTimes == {500, 1000, 1500, 2500, 3500}
ContractRows == [startVoteTime : StartSeconds, duration : DurationSeconds,
                 openStatus : BOOLEAN]

\* What the view is given in the model of the whole component: no vote, or
\* one open vote, read inside its window.
SampleResults == {<<>>, <<[startVoteTime |-> 0, duration |-> 1, openStatus |-> TRUE]>>}
SampleTimes == {500}

RECURSIVE SeqsUpTo(_, _)
SeqsUpTo(S, n) ==
    IF n = 0 THEN {<<>>}
    ELSE LET shorter == SeqsUpTo(S, n - 1)
         IN shorter \cup {Append(q, x) : q \in shorter, x \in S}

\* new Date(seconds * 1000)
DateOfSeconds(seconds) == seconds * MsPerSecond

\* The status computed from the clock alone.
VoteStatusIgnoringFlag(openStatus, currentTime, endDate) == currentTime < endDate

\* openStatuses[index] && currentTime < endDate
VoteStatus(openStatus, currentTime, endDate) == openStatus /\ currentTime < endDate

FormatVote(index, row, currentTime) ==
    [id |-> index,
     startDate |-> DateOfSeconds(row.startVoteTime),
     endDate |-> DateOfSeconds(row.startVoteTime + row.duration),
     status |-> VoteStatus(row.openStatus, currentTime,
                           DateOfSeconds(row.startVoteTime + row.duration))]

\* voteIDs.map((voteID, index) => ...)
FormattedVotes(result, currentTime) ==
    [index \in 1..Len(result) |-> FormatVote(index, result[index], currentTime)]

\* await contract.getAccessibleVotes(groupId) has resolved: setVotes.
votesGotResult(i, result, currentTime) ==
    /\ fetches[i].pc = "getAccessibleVotes"
    /\ votes' = FormattedVotes(result, currentTime)
    /\ votesFrom' = [result |-> result, currentTime |-> currentTime,
                     contract |-> fetches[i].contract,
                     account |-> fetches[i].account]
    /\ fetches' = [fetches EXCEPT ![i] = IdleFetch]
    /\ UNCHANGED <<pvAccount, pvEthereum, isValidUser, userLoading, userDetails,
                   userDetailsLoading, pvContract, pvLoading, pvError, details,
                   readCalls, pvEvents, pvCaught>>
    /\ UNCHANGED <<view, cvVars>>

\* An awaited operation of fetchVotes throws.
votesCatch(i, thrown) ==
    /\ fetches[i].pc \in {"getGroupId", "getAccessibleVotes"}
    /\ pvError' = CaughtMessage(thrown)
    /\ pvCaught' = thrown
    /\ fetches' = [fetches EXCEPT ![i] = IdleFetch]
    /\ UNCHANGED <<pvAccount, pvEthereum, isValidUser, userLoading, userDetails,
                   userDetailsLoading, pvContract, pvLoading, votes, details,
                   readCalls, votesFrom, pvEvents>>
    /\ UNCHANGED <<view, cvVars>>

\* The CreateVote view while the other view is mounted.
CreateVoteUnmounted ==
    /\ account = NoAccount
    /\ hasEthereum = FALSE
    /\ contract = NullContract
    /\ voteName = ""
    /\ startVoteTime = ""
    /\ voteDuration = ""
    /\ groupId = ""
    /\ availableGroups = {}
    /\ voteOptions = EmptyOptions
    /\ isLoading = TRUE
    /\ error = NoError
    /\ voteId = NullId
    /\ loads = [i \in LoadSlots |-> IdleLoad]
    /\ submits = [i \in SubmitSlots |-> IdleSubmit]
    /\ counter = 0
    /\ groupMembers = SampleGroups
    /\ createCalls = {}
    /\ confirmedVotes = {}
    /\ usersVotes = [a \in Accounts |-> <<>>]
    /\ addVotersCalls = {}
    /\ confirmedVoters = {}
    /\ returned = <<>>
    /\ events = 0
    /\ caught = NoThrow

\* The useState initial values (lines 36-42): the hooks are loading, so
\* neither effect does anything on the first render.
InitParticipatedVotes ==
    /\ view = "ParticipatedVotes"
    /\ pvAccount = ManagerAccount
    /\ pvEthereum \in BOOLEAN
    /\ isValidUser = FALSE
    /\ userLoading = TRUE
    /\ userDetails = NullDetails
    /\ userDetailsLoading = TRUE
    /\ pvContract = PvNullContract
    /\ pvLoading = TRUE
    /\ pvError = NoError
    /\ votes = <<>>
    /\ details = [i \in DetailSlots |-> IdleDetail]
    /\ fetches = [i \in FetchSlots |-> IdleFetch]
    /\ readCalls = {}
    /\ votesFrom = NoVotesFrom
    /\ pvEvents = 0
    /\ pvCaught = NoThrow
    /\ CreateVoteUnmounted

NextParticipatedVotes ==
    \/ \E a \in Accounts \cup {NoAccount} : pvAccountChanged(a)
    \/ \E valid \in BOOLEAN, uLoading \in BOOLEAN : checkUserChanged(valid, uLoading)
    \/ \E ud \in UserDetailsValues, udLoading \in BOOLEAN : userDetailsChanged(ud, udLoading)
    \/ \E i \in DetailSlots : detailsGotDoc(i)
    \/ \E i \in DetailSlots : detailsGotContract(i)
    \/ \E i \in DetailSlots, thrown \in Throwables : detailsCatch(i, thrown)
    \/ \E i \in FetchSlots, g \in GroupIdResults : votesGotGroupId(i, g)
    \/ \E i \in FetchSlots, result \in SampleResults,
          currentTime \in SampleTimes : votesGotResult(i, result, currentTime)
    \/ \E i \in FetchSlots, thrown \in Throwables : votesCatch(i, thrown)

(***************************************************************************)
(* The add-voters phase over every member list of a group: one submission  *)
(* of the manager has been confirmed and recorded, and waits for           *)
(* getUsersByGroupId.                                                      *)
(***************************************************************************)
SubmittedVote ==
    [pc |-> "getUsers", account |-> ManagerAccount, voteName |-> "n",
     startTime |-> DateParse("1970-01-02T00:00") \div MsPerSecond,
     duration |-> BigIntOf("1") * SecondsPerDay,
     groupID |-> BigIntOf("1"), groupId |-> "1",
     options |-> <<"b", "a">>, read |-> 0, voteID |-> 1]

InitAddVoters ==
    /\ view = "CreateVote"
    /\ account = ManagerAccount
    /\ hasEthereum = TRUE
    /\ contract = [address |-> ContractAddress, owner |-> ManagerAccount]
    /\ voteName = ""
    /\ startVoteTime = ""
    /\ voteDuration = ""
    /\ groupId = ""
    /\ voteOptions = EmptyOptions
    /\ availableGroups = GroupKeys
    /\ isLoading = FALSE
    /\ error = NoError
    /\ voteId = 1
    /\ loads = [i \in LoadSlots |->
                  IF i = 1 THEN [pc |-> "done", account |-> ManagerAccount]
                  ELSE IdleLoad]
    /\ submits = [i \in SubmitSlots |-> IF i = 1 THEN SubmittedVote ELSE IdleSubmit]
    /\ counter = 1
    /\ \E members \in SeqsUpTo(AddrStrings, MaxGroupSize) :
          groupMembers = [SampleGroups EXCEPT !["1"] = members]
    /\ createCalls = {CreateVoteCall(1, SubmittedVote, 1)}
    /\ confirmedVotes = {CreateVoteCall(1, SubmittedVote, 1)}
    /\ usersVotes = [a \in Accounts |->
                       IF a = ManagerAccount THEN <<UsersVotesEntry(SubmittedVote)>>
                       ELSE <<>>]
    /\ addVotersCalls = {}
    /\ confirmedVoters = {}
    /\ returned = <<1>>
    /\ events = 2
    /\ caught = NoThrow
    /\ Unmounted

NextAddVoters ==
    \/ \E i \in SubmitSlots : gotUsersInGroup(i)
    \/ \E i \in SubmitSlots : addVotersSent(i)
    \/ \E i \in SubmitSlots : txxWaitDone(i)
    \/ \E i \in SubmitSlots, thrown \in Throwables : addVotersCatch(i, thrown)

SpecAddVoters == InitAddVoters /\ [][NextAddVoters]_vars

(***************************************************************************)
(* fetchVotes over every result of getAccessibleVotes and every reading    *)
(* of the clock: a manager's contract is loaded and the second effect has  *)
(* called getGroupIdForUser.                                               *)
(***************************************************************************)
LoadedContract ==
    [address |-> ContractAddress, owner |-> ManagerAccount, source |-> "manager"]

InitFetchVotes ==
    /\ view = "ParticipatedVotes"
    /\ pvAccount = ManagerAccount
    /\ pvEthereum = TRUE
    /\ isValidUser = TRUE
    /\ userLoading = FALSE
    /\ userDetails = NullDetails
    /\ userDetailsLoading = FALSE
    /\ pvContract = LoadedContract
    /\ pvLoading = FALSE
    /\ pvError = NoError
    /\ votes = <<>>
    /\ details = [i \in DetailSlots |-> IdleDetail]
    /\ fetches = [i \in FetchSlots |->
                    IF i = 1 THEN [pc |-> "getGroupId", account |-> ManagerAccount,
                                   contract |-> LoadedContract,
                                   groupId |-> NullGroup]
                    ELSE IdleFetch]
    /\ readCalls = {}
    /\ votesFrom = NoVotesFrom
    /\ pvEvents = 2
    /\ pvCaught = NoThrow
    /\ CreateVoteUnmounted

NextFetchVotes ==
    \/ \E i \in FetchSlots, g \in GroupIdResults : votesGotGroupId(i, g)
    \/ \E i \in FetchSlots, result \in SeqsUpTo(ContractRows, MaxRows),
          currentTime \in CurrentTimes : votesGotResult(i, result, currentTime)
    \/ \E i \in FetchSlots, thrown \in Throwables : votesCatch(i, thrown)

SpecFetchVotes == InitFetchVotes /\ [][NextFetchVotes]_vars

Init == InitCreateVote \/ InitFilled \/ InitParticipatedVotes
Next == NextCreateVote \/ NextParticipatedVotes
Spec == Init /\ [][Next]_vars


(***************************************************************************)
(* Properties.                                                             *)
(***************************************************************************)
IsPrefix(p, q) == Len(p) <= Len(q) /\ \A k \in 1..Len(p) : p[k] = q[k]
HasEntry(array, entry) == \E k \in 1..Len(array) : array[k] = entry

\* C1: every vote ID returned by fetchAndUpdateVoteId is strictly greater
\* than every one returned before, also when the reads and write-backs of
\* overlapping submissions interleave, so no two createVote calls of
\* different submissions carry the same vote ID.
C1_VoteIdsStrictlyIncrease ==
    /\ \A j \in 1..Len(returned), k \in 1..Len(returned) :
          j < k => returned[j] < returned[k]
    /\ \A c \in createCalls, d \in createCalls :
          c.inv # d.inv => c.voteID # d.voteID

\* C2: for every row shown, built from start s, duration d, open flag o and
\* read at time t: t past s + d gives status false; t within [s, s + d) with
\* o true gives status true; o false gives status false.
C2_StatusFollowsWindow ==
    /\ Len(votes) = Len(votesFrom.result)
    /\ \A k \in 1..Len(votes) :
          LET row == votesFrom.result[k]
              t == votesFrom.currentTime
              startMs == row.startVoteTime * MsPerSecond
              endMs == (row.startVoteTime + row.duration) * MsPerSecond
          IN /\ t > endMs => ~votes[k].status
             /\ (startMs <= t /\ t < endMs /\ row.openStatus) => votes[k].status
             /\ ~row.openStatus => ~votes[k].status

\* Two rows read at one time: one open and inside its window, one open on
\* the contract and past its window.
C2_Witness ==
    /\ Len(votes) = 2
    /\ votes[1].status /\ ~votes[2].status
    /\ votesFrom.result[2].openStatus
    /\ votesFrom.currentTime >= votesFrom.result[1].startVoteTime * MsPerSecond

ValidIndexes(members) == {k \in 1..Len(members) : members[k].form \in {"lower", "checksum"}}
NthValidIndex(members, j) ==
    CHOOSE k \in ValidIndexes(members) :
        Cardinality({m \in ValidIndexes(members) : m <= k}) = j

\* C3: the list passed to addVoters holds, for the member list returned by
\* getUsersByGroupId, exactly the entries that are addresses, each in its
\* checksummed form, in the order of the member list.
C3_AddVotersGetsValidAddressesInOrder ==
    \A c \in addVotersCalls :
        LET members == getUsersByGroupId(submits[c.inv].account, submits[c.inv].groupId)
        IN /\ Len(c.addresses) = Cardinality(ValidIndexes(members))
           /\ \A j \in 1..Len(c.addresses) :
                 /\ c.addresses[j].form = "checksum"
                 /\ c.addresses[j].id = members[NthValidIndex(members, j)].id

\* A group of three members, the second one no address, the others two
\* different accounts, one of them given in lower case.
C3_Witness ==
    \E c \in addVotersCalls :
        LET members == groupMembers["1"]
        IN /\ Len(members) = 3
           /\ members[1].form = "lower"
           /\ members[2].form \in {"badsum", "malformed"}
           /\ members[3].form = "checksum"
           /\ members[1].id # members[3].id
           /\ Len(c.addresses) = 2

SubmitOrder ==
    <<"allocRead", "allocWrite", "createVote", "txWait", "setDoc", "getUsers",
      "addVoters", "txxWait", "done">>
Stage(pc) == CHOOSE k \in 0..Len(SubmitOrder) :
                \/ pc = "idle" /\ k = 0
                \/ k > 0 /\ SubmitOrder[k] = pc

C4_CallsInOrder ==
    /\ \A c \in createCalls, d \in createCalls : c.inv = d.inv => c = d
    /\ \A c \in addVotersCalls, d \in addVotersCalls : c.inv = d.inv => c = d
    /\ confirmedVotes \subseteq createCalls
    /\ \A c \in createCalls : Stage(submits[c.inv].pc) >= Stage("createVote")
    /\ \A c \in confirmedVotes : Stage(submits[c.inv].pc) >= Stage("setDoc")
    /\ \A a \in Accounts : \A k \in 1..Len(usersVotes[a]) :
          \E c \in confirmedVotes :
              /\ submits[c.inv].account = a
              /\ usersVotes[a][k] = [voteID |-> c.voteID, voteName |-> c.voteName]
    /\ \A c \in addVotersCalls :
          /\ Stage(submits[c.inv].pc) >= Stage("addVoters")
          /\ HasEntry(usersVotes[submits[c.inv].account],
                      [voteID |-> c.voteID, voteName |-> submits[c.inv].voteName])
    /\ \A v \in confirmedVoters : \E c \in addVotersCalls : c.voteID = v

C4_StepsInOrder ==
    \A i \in SubmitSlots :
        submits'[i].pc # submits[i].pc =>
            \/ Stage(submits'[i].pc) = Stage(submits[i].pc) + 1
            \/ submits[i].pc = "idle"
            \/ submits'[i].pc = "done"

C4_EntriesKept == \A a \in Accounts : IsPrefix(usersVotes[a], usersVotes'[a])

\* C4: within one handleSubmit invocation the operations run one after
\* another, each at most once, in the order fetchAndUpdateVoteId,
\* createVote, tx.wait, usersVotes merge, getUsersByGroupId, addVoters,
\* txx.wait; an entry of usersVotes belongs to a confirmed createVote with
\* the same vote ID and name, entries are never removed, and addVoters is
\* issued only after the entry of its vote was written.
C4_SubmitIsSequential ==
    /\ []C4_CallsInOrder
    /\ [][C4_StepsInOrder /\ C4_EntriesKept]_vars

\* A submission that ran all of its operations.
C4_Witness ==
    \E i \in SubmitSlots :
        /\ submits[i].pc = "done"
        /\ submits[i].voteID \in confirmedVoters
        /\ HasEntry(usersVotes[submits[i].account], UsersVotesEntry(submits[i]))

\* What the claim of uniform handling asks the error field to hold.
ThrownMessage(thrown) == IF thrown.isError THEN thrown.message ELSE MsgUnexpected

\* A catch block of CreateVote runs in this step.
CreateVoteCatches == caught' # caught
\* A catch block of ParticipatedVotes runs in this step.
ParticipatedVotesCatches == pvCaught' # pvCaught
\* The catch block that runs is the one of the add-voters phase.
AddVotersPhaseCatches ==
    /\ CreateVoteCatches
    /\ \E i \in SubmitSlots : submits[i].pc \in InnerAwaits /\ submits'[i].pc = "done"

\* The handler that caught ends, and nothing is started or issued again.
NothingRetried ==
    /\ \A i \in SubmitSlots : submits'[i].pc \in {submits[i].pc, "done"}
    /\ \A i \in LoadSlots : loads'[i].pc \in {loads[i].pc, "done"}
    /\ \A i \in DetailSlots : details'[i].pc \in {details[i].pc, "idle"}
    /\ createCalls' = createCalls
    /\ addVotersCalls' = addVotersCalls
    /\ readCalls' = readCalls
    /\ counter' = counter

\* C5 as stated: in fetchData, handleSubmit (its add-voters phase included),
\* fetchContractDetails and fetchVotes, whatever an awaited operation
\* throws is caught, nothing is retried, and the error field ends equal to
\* the message of the Error thrown, or to 'An unexpected error occurred'.
C5_ErrorIsThrownMessage ==
    [][/\ CreateVoteCatches => error' = ThrownMessage(caught') /\ NothingRetried
       /\ ParticipatedVotesCatches =>
             pvError' = ThrownMessage(pvCaught') /\ NothingRetried]_vars

\* C5, amended: the same, except that the add-voters phase of handleSubmit
\* stores its own fixed text whatever was thrown.
C5_ErrorIsThrownMessageOrAddVotersText ==
    [][/\ CreateVoteCatches =>
             /\ error' = IF AddVotersPhaseCatches THEN MsgAddVoters
                         ELSE ThrownMessage(caught')
             /\ NothingRetried
       /\ ParticipatedVotesCatches =>
             pvError' = ThrownMessage(pvCaught') /\ NothingRetried]_vars

\* The add-voters phase has caught a rejection and the fixed text is shown.
C5_Witness ==
    /\ caught = Thrown(MsgRejected)
    /\ error = MsgAddVoters
    /\ \E i \in SubmitSlots : submits[i].pc = "done" /\ submits[i].voteID = counter

ResolvedAddress(c) ==
    IF c.source = "manager" THEN ContractAddress ELSE UserContractAddress

\* C6: getAccessibleVotes is called only through a proxy created from the
\* address the account-type branch resolved, with a group id that is not
\* null; when the branch yields no address or there is no provider the error
\* is 'Contract details not found!', no proxy is stored and no read call is
\* issued; a null group id sets the error and issues no call.
C6_ReadsOnlyThroughResolvedProxy ==
    /\ [](\A r \in readCalls :
             /\ r.groupId # NullGroup
             /\ r.contract # PvNullContract
             /\ r.contract.source \in {"manager", "user"}
             /\ r.contract.address = ResolvedAddress(r.contract))
    /\ [][/\ (ParticipatedVotesCatches /\ pvCaught' = Thrown(MsgNotFound)) =>
                /\ pvError' = MsgNotFound
                /\ pvContract' = PvNullContract
                /\ \A i \in FetchSlots : fetches'[i].pc = "idle"
                /\ readCalls' = readCalls
          /\ (ParticipatedVotesCatches /\ pvCaught' = Thrown(MsgNoGroup)) =>
                /\ pvError' = MsgNoGroup
                /\ readCalls' = readCalls]_vars

InFlight(inv) == inv.pc \notin {"idle", "done"}

\* An invocation in flight is touched by its own steps only.
C7_EventsCancelNothing ==
    (events' # events \/ pvEvents' # pvEvents) =>
        /\ \A i \in SubmitSlots : InFlight(submits[i]) => submits'[i] = submits[i]
        /\ \A i \in LoadSlots : InFlight(loads[i]) => loads'[i] = loads[i]
        /\ \A i \in DetailSlots : InFlight(details[i]) => details'[i] = details[i]
        /\ \A i \in FetchSlots : InFlight(fetches[i]) => fetches'[i] = fetches[i]

\* An invocation that ends applies what it got, whoever is connected by then.
C7_ResultsApplied ==
    /\ \A i \in FetchSlots :
          (InFlight(fetches[i]) /\ ~InFlight(fetches'[i])) =>
              \/ /\ fetches[i].pc = "getAccessibleVotes"
                 /\ votesFrom'.account = fetches[i].account
                 /\ votesFrom'.contract = fetches[i].contract
                 /\ votes' = FormattedVotes(votesFrom'.result, votesFrom'.currentTime)
              \/ pvError' = ThrownMessage(pvCaught') /\ votes' = votes
    /\ \A i \in DetailSlots :
          (InFlight(details[i]) /\ ~InFlight(details'[i])) =>
              \/ /\ details[i].pc = "createContract"
                 /\ pvContract'.owner = details[i].account
              \/ pvError' = ThrownMessage(pvCaught') /\ pvContract' = pvContract
    /\ \A i \in SubmitSlots :
          (submits[i].pc = "allocWrite" /\ submits'[i].pc = "createVote") =>
              voteId' = submits'[i].voteID

\* C7: requests in flight are never cancelled: a change of account or
\* contract, or another submission, leaves the earlier fetchContractDetails,
\* fetchVotes and handleSubmit invocations running, and each applies its
\* result to the component when it ends.
C7_InFlightNeverCancelled == [][C7_EventsCancelNothing /\ C7_ResultsApplied]_vars

\* The view holds a contract and vote rows fetched for another account than
\* the one connected.
C7_Witness ==
    /\ pvAccount # NoAccount
    /\ pvContract # PvNullContract /\ pvContract.owner # pvAccount
    /\ Len(votes) > 0 /\ votesFrom.account # pvAccount

\* The submit event is the only step that counts an event and takes a slot.
SubmitEvent == events' # events /\ submits' # submits

InvalidSubmission ==
    \/ account = NoAccount
    \/ BigIntOk(voteDuration) /\ BigIntOf(voteDuration) <= 0
    \/ BigIntOk(groupId) /\ BigIntOf(groupId) <= 0

\* C8: a submission without an account, or with a duration or a group id
\* that is not positive, ends with an error and leaves the vote-ID counter,
\* the contract calls, usersVotes, the displayed vote ID and the form fields
\* as they were.
C8_ValidationPrecedesEffects ==
    [][(SubmitEvent /\ InvalidSubmission) =>
          /\ error' # NoError
          /\ \A i \in SubmitSlots : submits'[i].pc \in {submits[i].pc, "done"}
          /\ UNCHANGED <<counter, returned, chainVars, usersVotes, voteId, formVars>>]_vars

\* A submission with a filled form and a negative duration was rejected.
C8_Witness ==
    /\ error = MsgNotPositive
    /\ voteName = "n" /\ voteDuration = "-1"
    /\ \E i \in SubmitSlots : submits[i].pc = "done" /\ submits[i].voteID = NullId
    /\ counter = 0 /\ createCalls = {}

C9_AddVotersCallsWellFormed ==
    \A c \in addVotersCalls :
        /\ Len(c.addresses) > 0
        /\ \E d \in confirmedVotes :
              d.inv = c.inv /\ d.voteID = c.voteID /\ d.groupID = c.groupID

C9_FailureConfined ==
    AddVotersPhaseCatches =>
        /\ error' = MsgAddVoters
        /\ UNCHANGED <<counter, usersVotes, createCalls, confirmedVotes, formVars>>
        /\ \A i \in SubmitSlots :
              (submits'[i].pc # submits[i].pc) =>
                  HasEntry(usersVotes'[submits[i].account], UsersVotesEntry(submits[i]))

\* C9: addVoters is never called with an empty list; a failure of the
\* add-voters phase sets the error and leaves the created vote, its
\* usersVotes entry, the counter and the reset form as they are; addVoters is
\* called only for a confirmed createVote, with its vote ID and group ID.
C9_AddVotersPhaseConfined ==
    /\ []C9_AddVotersCallsWellFormed
    /\ [][C9_FailureConfined]_vars

\* A vote was created for a group without a valid address: the vote and its
\* entry stand, the form is reset, the error is shown.
C9_Witness ==
    \E i \in SubmitSlots :
        /\ submits[i].pc = "done"
        /\ caught = Thrown(MsgNoValid)
        /\ error = MsgAddVoters
        /\ counter = submits[i].voteID
        /\ HasEntry(usersVotes[submits[i].account], UsersVotesEntry(submits[i]))
        /\ \A c \in addVotersCalls : c.inv # i
        /\ voteOptions = EmptyOptions /\ voteName = ""

NonBlankIndexes(options) == {k \in 1..Len(options) : options[k] \notin {"", " "}}
NthNonBlankIndex(options, j) ==
    CHOOSE k \in NonBlankIndexes(options) :
        Cardinality({m \in NonBlankIndexes(options) : m <= k}) = j
IsNonBlankSelection(selected, options) ==
    /\ Len(selected) = Cardinality(NonBlankIndexes(options))
    /\ \A j \in 1..Len(selected) : selected[j] = options[NthNonBlankIndex(options, j)]

C10_OptionSteps ==
    /\ voteOptions' # voteOptions =>
          \/ Len(voteOptions) < MaxOptions /\ voteOptions' = Append(voteOptions, "")
          \/ voteOptions' = <<"", "">>
          \/ /\ Len(voteOptions') = Len(voteOptions)
             /\ \E k \in 1..Len(voteOptions) :
                   \A m \in 1..Len(voteOptions) :
                       m # k => voteOptions'[m] = voteOptions[m]
    /\ (error' = MsgMaxOptions /\ error # MsgMaxOptions) =>
          Len(voteOptions) = MaxOptions /\ voteOptions' = voteOptions
    /\ \A i \in SubmitSlots :
          (submits[i].pc = "idle" /\ submits'[i].pc = "allocRead") =>
              IsNonBlankSelection(submits'[i].options, voteOptions)

C10_OptionsInRange ==
    /\ Len(voteOptions) >= 2 /\ Len(voteOptions) <= MaxOptions
    /\ \A c \in createCalls : c.options = submits[c.inv].options

\* C10: the option list always has between 2 and 10 entries; addOption
\* appends one empty entry below 10 and at 10 leaves the list alone and sets
\* 'A maximum of 10 options are allowed.'; resetForm restores two empty
\* entries; handleOptionChange changes the addressed entry only; createVote
\* is given the non-blank entries in their order.
C10_OptionListBounded ==
    /\ []C10_OptionsInRange
    /\ [][C10_OptionSteps]_vars

\* The list has been filled to the cap and addOption was refused.
C10_Witness == Len(voteOptions) = MaxOptions /\ error = MsgMaxOptions

====
